---- MODULE Spec2Model ----
(***************************************************************************)
(* The artificial-neuron simulator: the ArtificialNeuron React component   *)
(* (src/app/components/ArtificialNeuron.tsx) as a state machine.  The      *)
(* component's useState cells are the variables, its event handlers are    *)
(* the actions and its useMemo values are operators over the state.  The   *)
(* variant of the component with a pannable, zoomable graph                *)
(* (src/unnamed/part_000) shares the input, bias and selection cells and   *)
(* adds the viewport cells.  An action is one event: the handler's state   *)
(* updates followed by the re-render that re-creates the handlers, which   *)
(* React commits before it runs the handler of the next event.             *)
(*                                                                         *)
(* Numbers.  A JavaScript number is a record [k, n, d]:                    *)
(*   k = "rat"     the rational n/d (d > 0, lowest terms);                 *)
(*   k = "inf"     +Infinity (n = 1) or -Infinity (n = -1);                *)
(*   k = "nan"     NaN;                                                    *)
(*   k = "sigmoid" the double 1/(1+exp(-n/d)) where it is not 0, 1/2 or 1; *)
(*   k = "tanh"    the double tanh(n/d) where it is not -1, 0 or 1.        *)
(* Sums, products and quotients of the small decimals used here are kept   *)
(* exact; the IEEE double effects that change a result's position with     *)
(* respect to 0 and 1 (overflow of exp, absorption of a tiny addend,       *)
(* rounding of tanh to +-1) are modelled where the code computes them.     *)
(*                                                                         *)
(* Strings.  A string is a sequence of one-character strings.              *)
(***************************************************************************)
EXTENDS Integers, Sequences, FiniteSets

VARIABLES
  inputs,               \* Input[]: sequence of [id, value, weight]
  selectedAggregation,  \* name of the selected aggregation function
  selectedFunction,     \* name of the selected activation function
  theta,                \* bias / threshold
  thetaInput,           \* raw text of the theta field
  linearSlope,          \* slope a of the Linear activation
  linearSlopeInput,     \* raw text of the slope field
  sigmoidGain,          \* gain g of Sigmoid and Tanh
  sigmoidGainInput,     \* raw text of the gain field
  last,                 \* history: the collection or field handler that ran
                        \* last, its arguments and the length it found
  removes,              \* history: number of removeInput calls so far
  edits,                \* history: number of updateInput / theta edits so far
  panX,                 \* pan/zoom variant: horizontal pan of the graph
  panY,                 \* pan/zoom variant: vertical pan of the graph
  zoom,                 \* pan/zoom variant: zoom factor of the graph
  isDragging,           \* pan/zoom variant: a drag of the graph is under way
  dragStart,            \* pan/zoom variant: [x, y] anchor of the drag
  view,                 \* history: the viewport handler that ran last, its
                        \* event, the zoom, pan and drag flag it found, the
                        \* last pointer-down with the pan it found, and the
                        \* parity of the viewport events so far
  budget,               \* viewport events ([events]) and wheel events
                        \* ([wheels]) still to be explored in this run
  closure               \* the state values captured, at the last render, by
                        \* the handlers that read state: inputs (addInput,
                        \* removeInput, updateInput), down (handleMouseDown)
                        \* and move (handleMouseMove)

neuronVars == <<inputs, selectedAggregation, selectedFunction, theta,
                thetaInput, linearSlope, linearSlopeInput, sigmoidGain,
                sigmoidGainInput, last, removes, edits>>

viewVars == <<panX, panY, zoom, isDragging, dragStart, view, budget>>

vars == <<inputs, selectedAggregation, selectedFunction, theta, thetaInput,
          linearSlope, linearSlopeInput, sigmoidGain, sigmoidGainInput,
          last, removes, edits, panX, panY, zoom, isDragging, dragStart,
          view, budget, closure>>

(***************************************************************************)
(* Bounds of the model.                                                    *)
(***************************************************************************)
MaxRemoves == 2        \* removeInput calls explored in one run
MaxRawLen == 2         \* length of the raw strings typed into a field
MaxEdits == 1          \* updateInput / handleThetaChange calls in one run
MaxEvalLen == 2        \* inputs of the collections the evaluator is run on
MaxZoomEvents == 9     \* viewport events of one run of the zoom controls
MaxWheels == 2         \* wheel events of one run
MaxPanEvents == 4      \* viewport events of one run of the pointer handlers
MaxFrameEvents == 1    \* viewport events of one run next to the input handlers
MaxGraphEvents == 2    \* viewport events of one run of the curve sampler

(***************************************************************************)
(* Program constants.                                                      *)
(***************************************************************************)
MaxInputs == 10        \* the Add Input button is disabled from 10 inputs on

(***************************************************************************)
(* Numbers.                                                                *)
(***************************************************************************)
Abs(i) == IF i < 0 THEN -i ELSE i

RECURSIVE Gcd(_, _)
Gcd(a, b) == IF b = 0 THEN a ELSE Gcd(b, a % b)

Rat(n, d) ==
  LET g == Gcd(Abs(n), Abs(d))
      s == IF d < 0 THEN -1 ELSE 1
  IN [k |-> "rat", n |-> (s * n) \div g, d |-> (s * d) \div g]

Int2Num(i) == [k |-> "rat", n |-> i, d |-> 1]
NaN == [k |-> "nan", n |-> 0, d |-> 1]
PosInf == [k |-> "inf", n |-> 1, d |-> 1]
NegInf == [k |-> "inf", n |-> -1, d |-> 1]
Zero == Int2Num(0)
One == Int2Num(1)
MinusOne == Int2Num(-1)

IsNaN(a) == a.k = "nan"
IsRat(a) == a.k = "rat"
IsInf(a) == a.k = "inf"
Sgn(a) == IF a.n > 0 THEN 1 ELSE IF a.n < 0 THEN -1 ELSE 0

\* a + b
NumAdd(a, b) ==
  IF IsNaN(a) \/ IsNaN(b) THEN NaN
  ELSE IF IsInf(a) /\ IsInf(b) THEN (IF a.n = b.n THEN a ELSE NaN)
  ELSE IF IsInf(a) THEN a
  ELSE IF IsInf(b) THEN b
  ELSE Rat(a.n * b.d + b.n * a.d, a.d * b.d)

\* a * b
NumMul(a, b) ==
  IF IsNaN(a) \/ IsNaN(b) THEN NaN
  ELSE IF IsInf(a) \/ IsInf(b)
       THEN (IF Sgn(a) * Sgn(b) = 0 THEN NaN
             ELSE IF Sgn(a) * Sgn(b) > 0 THEN PosInf ELSE NegInf)
  ELSE Rat(a.n * b.n, a.d * b.d)

\* -a
NumNeg(a) == IF IsNaN(a) THEN NaN ELSE [a EXCEPT !.n = -a.n]

\* a / b
NumDiv(a, b) ==
  IF IsNaN(a) \/ IsNaN(b) THEN NaN
  ELSE IF IsInf(a) /\ IsInf(b) THEN NaN
  ELSE IF IsInf(a) THEN (IF Sgn(b) < 0 THEN NumNeg(a) ELSE a)
  ELSE IF IsInf(b) THEN Zero
  ELSE IF b.n = 0
       THEN (IF a.n = 0 THEN NaN ELSE IF a.n > 0 THEN PosInf ELSE NegInf)
  ELSE Rat(a.n * b.d, a.d * b.n)

\* a < b (false when either side is NaN, as in JavaScript)
NumLess(a, b) ==
  IF IsNaN(a) \/ IsNaN(b) THEN FALSE
  ELSE IF IsInf(a) THEN a.n < 0 /\ ~(IsInf(b) /\ b.n < 0)
  ELSE IF IsInf(b) THEN b.n > 0
  ELSE a.n * b.d < b.n * a.d

NumLeq(a, b) == ~IsNaN(a) /\ ~IsNaN(b) /\ ~NumLess(b, a)

\* Math.max(a, b) and Math.min(a, b)
MathMax(a, b) ==
  IF IsNaN(a) \/ IsNaN(b) THEN NaN ELSE IF NumLess(a, b) THEN b ELSE a
MathMin(a, b) ==
  IF IsNaN(a) \/ IsNaN(b) THEN NaN ELSE IF NumLess(b, a) THEN b ELSE a

(***************************************************************************)
(* Strings: Number.prototype.toString for the non-negative integers used   *)
(* as identifiers, and parseFloat.                                         *)
(***************************************************************************)
Digits == <<"0", "1", "2", "3", "4", "5", "6", "7", "8", "9">>
IsDigit(c) == \E i \in 1..10 : Digits[i] = c
DigitVal(c) == (CHOOSE i \in 1..10 : Digits[i] = c) - 1

RECURSIVE toString(_)
toString(i) ==
  IF i < 10 THEN <<Digits[i + 1]>>
  ELSE Append(toString(i \div 10), Digits[(i % 10) + 1])

\* number of consecutive digits of s starting at position p
RECURSIVE DigitRun(_, _)
DigitRun(s, p) ==
  IF p <= Len(s) /\ IsDigit(s[p]) THEN 1 + DigitRun(s, p + 1) ELSE 0

\* value of the k digits of s starting at position p
RECURSIVE DigitsValue(_, _, _)
DigitsValue(s, p, k) ==
  IF k = 0 THEN 0
  ELSE 10 * DigitsValue(s, p, k - 1) + DigitVal(s[p + k - 1])

RECURSIVE Pow10(_)
Pow10(k) == IF k = 0 THEN 1 ELSE 10 * Pow10(k - 1)

\* parseFloat(s): the longest prefix of s that is a decimal literal
\* ([+-] digits [. digits] or [+-] . digits), NaN when there is none.
\* Exponents, "Infinity" and leading white space are outside the alphabet
\* of the raw strings and are not parsed.
ParseFloat(s) ==
  LET signed == Len(s) >= 1 /\ s[1] \in {"-", "+"}
      p0 == IF signed THEN 2 ELSE 1
      nI == DigitRun(s, p0)
      dot == p0 + nI <= Len(s) /\ s[p0 + nI] = "."
      nF == IF dot THEN DigitRun(s, p0 + nI + 1) ELSE 0
      mag == Rat(DigitsValue(s, p0, nI) * Pow10(nF)
                   + DigitsValue(s, p0 + nI + 1, nF), Pow10(nF))
  IN IF nI = 0 /\ nF = 0 THEN NaN
     ELSE IF signed /\ s[1] = "-" THEN NumNeg(mag) ELSE mag

\* a || b on numbers: a unless a is falsy (0, -0 or NaN)
OrElse(a, b) == IF IsNaN(a) \/ (IsRat(a) /\ a.n = 0) THEN b ELSE a

\* the raw strings a field can hold
Chars == {"-", ".", "0", "1", "x"}
RawStrings == UNION {[1..l -> Chars] : l \in 0..MaxRawLen}

(***************************************************************************)
(* The Input collection.                                                   *)
(***************************************************************************)
Input(id, value, weight) == [id |-> id, value |-> value, weight |-> weight]

InitialInputs == <<Input(toString(1), Zero, One), Input(toString(2), Zero, One)>>

\* Array.prototype.filter(input => input.id !== id)
RECURSIVE FilterNotId(_, _)
FilterNotId(ins, id) ==
  IF ins = <<>> THEN <<>>
  ELSE IF Head(ins).id # id
       THEN <<Head(ins)>> \o FilterNotId(Tail(ins), id)
       ELSE FilterNotId(Tail(ins), id)

\* body of addInput: the new collection
addInputResult(ins) ==
  LET newId == toString(Len(ins) + 1)
  IN Append(ins, Input(newId, Zero, One))

\* removeInput without its length test
removeInputUnguarded(ins, id) == FilterNotId(ins, id)

\* body of removeInput: the new collection
removeInputResult(ins, id) ==
  IF Len(ins) > 1 THEN FilterNotId(ins, id) ELSE ins

\* the field parser without its "|| 0" fallback
parseNoFallback(raw) == IF raw = <<>> THEN Zero ELSE ParseFloat(raw)

\* value === '' ? 0 : parseFloat(value) || 0
parseOrZero(raw) == IF raw = <<>> THEN Zero ELSE OrElse(ParseFloat(raw), Zero)

\* body of updateInput: the new collection
updateInputResult(ins, id, field, raw) ==
  [i \in 1..Len(ins) |->
     IF ins[i].id = id
     THEN (IF field = "value"
           THEN [ins[i] EXCEPT !.value = parseOrZero(raw)]
           ELSE [ins[i] EXCEPT !.weight = parseOrZero(raw)])
     ELSE ins[i]]

\* the identifiers offered by the rendered input rows
RenderedIds == {inputs[i].id : i \in 1..Len(inputs)}

\* disabled attribute of the Add Input button
addInputDisabled == Len(inputs) >= MaxInputs

NoArg == <<>>
Last(op, id, field, raw) ==
  [op |-> op, id |-> id, field |-> field, raw |-> raw, len |-> Len(inputs)]

(***************************************************************************)
(* Aggregation registry (aggregationFunctions) and aggregatedValue.        *)
(***************************************************************************)
AggregationNames == {"Sum", "Product", "Maximum", "Minimum"}

\* input.value * input.weight
product(input) == NumMul(input.value, input.weight)

\* inputs.reduce((sum, input) => sum + (input.value * input.weight), 0)
sumFn(ins) ==
  LET acc[i \in 0..Len(ins)] ==
        IF i = 0 THEN Zero ELSE NumAdd(acc[i - 1], product(ins[i]))
  IN acc[Len(ins)]

\* inputs.reduce((prod, input) => prod * (input.value * input.weight), 1)
productFn(ins) ==
  LET acc[i \in 0..Len(ins)] ==
        IF i = 0 THEN One ELSE NumMul(acc[i - 1], product(ins[i]))
  IN acc[Len(ins)]

\* Math.max(...inputs.map(input => input.value * input.weight))
maximumFn(ins) ==
  LET acc[i \in 0..Len(ins)] ==
        IF i = 0 THEN NegInf ELSE MathMax(acc[i - 1], product(ins[i]))
  IN acc[Len(ins)]

\* Math.min(...inputs.map(input => input.value * input.weight))
minimumFn(ins) ==
  LET acc[i \in 0..Len(ins)] ==
        IF i = 0 THEN PosInf ELSE MathMin(acc[i - 1], product(ins[i]))
  IN acc[Len(ins)]

aggregationFn(name, ins) ==
  CASE name = "Sum" -> sumFn(ins)
    [] name = "Product" -> productFn(ins)
    [] name = "Maximum" -> maximumFn(ins)
    [] name = "Minimum" -> minimumFn(ins)

\* theta taken as one more operand of the aggregation instead of an offset
aggregatedValueThetaAsOperand ==
  LET base == aggregationFn(selectedAggregation, inputs)
  IN CASE selectedAggregation = "Sum" -> NumAdd(base, theta)
       [] selectedAggregation = "Product" -> NumMul(base, theta)
       [] selectedAggregation = "Maximum" -> MathMax(base, theta)
       [] selectedAggregation = "Minimum" -> MathMin(base, theta)

\* baseValue + theta
aggregatedValue == NumAdd(aggregationFn(selectedAggregation, inputs), theta)

(***************************************************************************)
(* Activation registry (activationFunctions) and output.                   *)
(***************************************************************************)
ActivationNames == {"Sigmoid", "Tanh", "Linear", "Step", "Sign"}

\* Math.exp(t) is Infinity from this argument on (ln of the largest double
\* is 709.78...)
ExpOverflowArg == 710
\* 1 + Math.exp(-t) is exactly 1 from this argument on (exp(-t) < 2^-53)
ExpAbsorbedArg == 37
\* Math.tanh(t) is exactly 1 from this argument on (1 - tanh(t) < 2^-54)
TanhOneArg == 20

\* 1 / (1 + Math.exp(t)) in double arithmetic.  Between the thresholds the
\* result is the symbolic value "sigmoid" of -t.
recipOnePlusExp(t) ==
  IF IsNaN(t) THEN NaN
  ELSE IF NumLeq(Int2Num(ExpOverflowArg), t) THEN Zero
  ELSE IF NumLeq(t, Int2Num(-ExpAbsorbedArg)) THEN One
  ELSE IF t.n = 0 THEN Rat(1, 2)
  ELSE [k |-> "sigmoid", n |-> -t.n, d |-> t.d]

\* Math.tanh(t) in double arithmetic
mathTanh(t) ==
  IF IsNaN(t) THEN NaN
  ELSE IF NumLeq(Int2Num(TanhOneArg), t) THEN One
  ELSE IF NumLeq(t, Int2Num(-TanhOneArg)) THEN MinusOne
  ELSE IF t.n = 0 THEN Zero
  ELSE [k |-> "tanh", n |-> t.n, d |-> t.d]

\* Step with a strict comparison
stepFnStrict(x) == IF NumLess(Zero, x) THEN One ELSE Zero

\* Step.fn: x >= 0 ? 1 : 0
stepFn(x) == IF NumLeq(Zero, x) THEN One ELSE Zero

\* Sign.fn: x > 0 ? 1 : -1
signFn(x) == IF NumLess(Zero, x) THEN One ELSE MinusOne

\* selectedFunction.fn(x) of the registry
activationFn(name, x) ==
  CASE name = "Sigmoid" -> recipOnePlusExp(NumNeg(x))
    [] name = "Tanh" -> mathTanh(x)
    [] name = "Linear" -> x
    [] name = "Step" -> stepFn(x)
    [] name = "Sign" -> signFn(x)

\* Math.max(-1, Math.min(1, linearOutput))
clampLinear(linearOutput) == MathMax(MinusOne, MathMin(One, linearOutput))

\* the Linear branch without the division by the slope
linearOutputIgnoringSlope(agg, slope) == clampLinear(agg)

\* the Linear branch of output
linearOutputOf(agg, slope) ==
  LET linearOutput == IF slope # Zero THEN NumDiv(agg, slope) ELSE agg
  IN clampLinear(linearOutput)

\* the Sigmoid branch without the gain
sigmoidOutputIgnoringGain(agg, gain) == recipOnePlusExp(NumNeg(agg))

\* the Sigmoid branch of output: 1 / (1 + Math.exp(-sigmoidGain * aggregatedValue))
sigmoidOutputOf(agg, gain) == recipOnePlusExp(NumMul(NumNeg(gain), agg))

\* the Tanh branch of output: Math.tanh(sigmoidGain * aggregatedValue)
tanhOutputOf(agg, gain) == mathTanh(NumMul(gain, agg))

outputOf(name, agg, slope, gain) ==
  IF name = "Linear" THEN linearOutputOf(agg, slope)
  ELSE IF name = "Sigmoid" THEN sigmoidOutputOf(agg, gain)
  ELSE IF name = "Tanh" THEN tanhOutputOf(agg, gain)
  ELSE activationFn(name, agg)

output == outputOf(selectedFunction, aggregatedValue, linearSlope, sigmoidGain)

\* the gain that output applies when the function called name is selected
\* and the gain cell holds gain (no gain for the other functions)
gainOf(name, gain) ==
  IF name = "Sigmoid" \/ name = "Tanh" THEN gain ELSE NoArg

(***************************************************************************)
(* Field parsers of the parameter handlers.                                *)
(***************************************************************************)
\* the slope parser accepting every parsed number
linearSlopeUnclamped(raw) ==
  LET numValue == ParseFloat(raw)
  IN IF raw = <<>> \/ IsNaN(numValue) THEN One ELSE numValue

\* handleLinearSlopeChange: the slope stored for a raw string
linearSlopeOf(raw) ==
  LET numValue == ParseFloat(raw)
  IN IF raw = <<>> THEN One
     ELSE IF ~IsNaN(numValue) /\ NumLeq(One, numValue) THEN numValue
     ELSE One

\* handleSigmoidGainChange: the gain stored for a raw string
sigmoidGainOf(raw) ==
  LET numValue == ParseFloat(raw)
  IN IF raw = <<>> THEN One
     ELSE IF ~IsNaN(numValue) /\ NumLess(One, numValue) THEN numValue
     ELSE Rat(11, 10)

(***************************************************************************)
(* Initial state: the useState initial values.                             *)
(***************************************************************************)
\* handleMouseDown is re-created when its dependency array changes
mouseDownDepsNone(px, py) == <<>>

\* the dependency array [panX, panY] of handleMouseDown
mouseDownDeps(px, py) == <<px, py>>

\* the dependency array [isDragging, dragStart] of handleMouseMove
mouseMoveDeps(dragging, start) == <<dragging, start>>

\* the values the handlers capture in a render of the current state
Captured ==
  [inputs |-> inputs,
   down |-> [panX |-> panX, panY |-> panY],
   move |-> [isDragging |-> isDragging, dragStart |-> dragStart]]

\* the re-render that follows the state updates of an event: addInput,
\* removeInput and updateInput are new closures in every render;
\* handleMouseDown and handleMouseMove are useCallback values, re-created
\* only in a render whose dependency array differs from the previous one.
render ==
  closure' =
    [inputs |-> inputs',
     down |-> IF mouseDownDeps(panX', panY') # mouseDownDeps(panX, panY)
              THEN [panX |-> panX', panY |-> panY']
              ELSE closure.down,
     move |-> IF mouseMoveDeps(isDragging', dragStart')
                   # mouseMoveDeps(isDragging, dragStart)
              THEN [isDragging |-> isDragging', dragStart |-> dragStart']
              ELSE closure.move]

\* the viewport of the pan/zoom variant after construction, with the
\* numbers of viewport and wheel events a run explores
InitialView(events, wheels) ==
  /\ panX = 0
  /\ panY = 0
  /\ zoom = One
  /\ isDragging = FALSE
  /\ dragStart = [x |-> 0, y |-> 0]
  /\ view = [op |-> "init", arg |-> NoArg, dragging |-> FALSE, zoom |-> One,
             pan |-> <<0, 0>>, down |-> NoArg, downPan |-> NoArg, seq |-> 0,
             sinceReset |-> FALSE]
  /\ budget = [events |-> events, wheels |-> wheels]
  /\ closure = Captured

Init ==
  /\ inputs = InitialInputs
  /\ selectedAggregation = "Sum"
  /\ selectedFunction = "Sigmoid"
  /\ theta = Zero
  /\ thetaInput = <<"0">>
  /\ linearSlope = One
  /\ linearSlopeInput = <<"1">>
  /\ sigmoidGain = One
  /\ sigmoidGainInput = <<"1">>
  /\ last = [op |-> "init", id |-> NoArg, field |-> "", raw |-> NoArg, len |-> 0]
  /\ removes = 0
  /\ edits = 0
  /\ InitialView(0, 0)

(***************************************************************************)
(* Handlers of the Input collection.  addInput runs only while its button  *)
(* is enabled: the handler has no length test of its own, so the button's  *)
(* disabled attribute is what bounds the collection.  removeInput and      *)
(* updateInput run for the identifier of any rendered row; removeInput is  *)
(* also run on a collection of one input, where the row shows no remove    *)
(* button and the handler's own length test decides.                       *)
(***************************************************************************)
addInput ==
  /\ ~addInputDisabled
  /\ inputs' = addInputResult(closure.inputs)
  /\ last' = Last("addInput", NoArg, "", NoArg)
  /\ UNCHANGED viewVars
  /\ UNCHANGED <<selectedAggregation, selectedFunction, theta, thetaInput,
                 linearSlope, linearSlopeInput, sigmoidGain, sigmoidGainInput,
                 removes, edits>>
  /\ render

removeInput ==
  \E id \in RenderedIds :
    /\ removes < MaxRemoves
    /\ removes' = removes + 1
    /\ inputs' = removeInputResult(closure.inputs, id)
    /\ last' = Last("removeInput", id, "", NoArg)
    /\ UNCHANGED viewVars
    /\ UNCHANGED <<selectedAggregation, selectedFunction, theta, thetaInput,
                   linearSlope, linearSlopeInput, sigmoidGain, sigmoidGainInput,
                   edits>>
    /\ render

updateInput ==
  \E id \in RenderedIds, field \in {"value", "weight"}, raw \in RawStrings :
    /\ edits < MaxEdits
    /\ edits' = edits + 1
    /\ inputs' = updateInputResult(closure.inputs, id, field, raw)
    /\ last' = Last("updateInput", id, field, raw)
    /\ UNCHANGED viewVars
    /\ UNCHANGED <<selectedAggregation, selectedFunction, theta, thetaInput,
                   linearSlope, linearSlopeInput, sigmoidGain, sigmoidGainInput,
                   removes>>
    /\ render

(***************************************************************************)
(* Handlers of the bias and of the activation parameters, and the two      *)
(* function selectors.                                                     *)
(***************************************************************************)
handleThetaChange ==
  \E raw \in RawStrings :
    /\ edits < MaxEdits
    /\ edits' = edits + 1
    /\ thetaInput' = raw
    /\ theta' = parseOrZero(raw)
    /\ last' = Last("handleThetaChange", NoArg, "", raw)
    /\ UNCHANGED viewVars
    /\ UNCHANGED <<inputs, selectedAggregation, selectedFunction,
                   linearSlope, linearSlopeInput, sigmoidGain, sigmoidGainInput,
                   removes>>
    /\ render

handleLinearSlopeChange ==
  \E raw \in RawStrings :
    /\ linearSlopeInput' = raw
    /\ linearSlope' = linearSlopeOf(raw)
    /\ UNCHANGED viewVars
    /\ UNCHANGED <<inputs, selectedAggregation, selectedFunction, theta,
                   thetaInput, sigmoidGain, sigmoidGainInput, last, removes,
                   edits>>
    /\ render

handleSigmoidGainChange ==
  \E raw \in RawStrings :
    /\ sigmoidGainInput' = raw
    /\ sigmoidGain' = sigmoidGainOf(raw)
    /\ last' = Last("handleSigmoidGainChange", NoArg, "", raw)
    /\ UNCHANGED viewVars
    /\ UNCHANGED <<inputs, selectedAggregation, selectedFunction, theta,
                   thetaInput, linearSlope, linearSlopeInput, removes, edits>>
    /\ render

setSelectedAggregation ==
  \E func \in AggregationNames :
    /\ selectedAggregation' = func
    /\ UNCHANGED viewVars
    /\ UNCHANGED <<inputs, selectedFunction, theta, thetaInput, linearSlope,
                   linearSlopeInput, sigmoidGain, sigmoidGainInput, last,
                   removes, edits>>
    /\ render

\* a selection that puts the gain back to its initial value
setSelectedFunctionResettingGain ==
  \E func \in ActivationNames :
    /\ selectedFunction' = func
    /\ sigmoidGain' = One
    /\ sigmoidGainInput' = <<"1">>
    /\ UNCHANGED viewVars
    /\ UNCHANGED <<inputs, selectedAggregation, theta, thetaInput, linearSlope,
                   linearSlopeInput, last, removes, edits>>
    /\ render

setSelectedFunction ==
  \E func \in ActivationNames :
    /\ selectedFunction' = func
    /\ UNCHANGED viewVars
    /\ UNCHANGED <<inputs, selectedAggregation, theta, thetaInput, linearSlope,
                   linearSlopeInput, sigmoidGain, sigmoidGainInput, last,
                   removes, edits>>
    /\ render

(***************************************************************************)
(* The pan/zoom variant of the component (src/unnamed/part_000).  It keeps *)
(* the Input collection, the bias (theta here) and the selected activation *)
(* function as above and adds a viewport: panX, panY, zoom, isDragging and *)
(* dragStart.  A pointer event e is the pair <<clientX, clientY>>, a wheel *)
(* event is its deltaY.                                                    *)
(***************************************************************************)
ZoomFactor == Rat(6, 5)       \* 1.2, the factor of the two zoom buttons
MinZoom == Rat(1, 5)          \* 0.2
MaxZoom == Rat(3, 2)          \* 1.5
WheelDeltas == {-100, 0, 100}
ClientPoints == {<<0, 0>>, <<3, 4>>, <<7, 1>>}

\* the zoom-in update without its upper bound
zoomInUnclamped(prev) == NumMul(prev, ZoomFactor)

\* handleZoomIn: the functional update of zoom
zoomInResult(prev) == MathMin(NumMul(prev, ZoomFactor), MaxZoom)

\* handleZoomOut: the functional update of zoom
zoomOutResult(prev) == MathMax(NumDiv(prev, ZoomFactor), MinZoom)

\* handleWheel: the factor chosen from the wheel direction
wheelDelta(deltaY) == IF deltaY > 0 THEN Rat(9, 10) ELSE Rat(11, 10)

\* handleWheel: the functional update of zoom
wheelResult(prev, deltaY) ==
  MathMax(MinZoom, MathMin(MaxZoom, NumMul(prev, wheelDelta(deltaY))))

\* a reset that leaves the zoom alone
resetViewKeepingZoom == [panX |-> 0, panY |-> 0, zoom |-> zoom]

\* handleResetView: the values it stores
resetViewResult == [panX |-> 0, panY |-> 0, zoom |-> One]

\* an anchor that forgets the pan found by the pointer-down
dragStartIgnoringPan(px, py, e) == [x |-> e[1], y |-> e[2]]

\* handleMouseDown: the anchor stored for a pointer-down at e under pan (px, py)
dragStartOf(px, py, e) == [x |-> e[1] - px, y |-> e[2] - py]

\* handleMouseMove: the pan stored for a pointer-move to e
panOf(dragging, start, e, px, py) ==
  IF dragging THEN <<e[1] - start.x, e[2] - start.y>> ELSE <<px, py>>

\* the disabled attributes of the two zoom buttons
zoomInDisabled == NumLeq(MaxZoom, zoom)
zoomOutDisabled == NumLeq(zoom, MinZoom)

\* the record of a viewport handler that runs now
Viewed(op, arg) ==
  [view EXCEPT !.op = op, !.arg = arg, !.dragging = isDragging,
               !.zoom = zoom, !.pan = <<panX, panY>>, !.seq = 1 - view.seq,
               !.sinceReset = IF op = "handleResetView" THEN TRUE
                              ELSE IF op = "handleMouseDown" THEN FALSE
                              ELSE view.sinceReset]

handleZoomIn ==
  /\ budget.events > 0
  /\ ~zoomInDisabled
  /\ zoom' = zoomInResult(zoom)
  /\ view' = Viewed("handleZoomIn", NoArg)
  /\ budget' = [budget EXCEPT !.events = @ - 1]
  /\ UNCHANGED <<panX, panY, isDragging, dragStart>>
  /\ UNCHANGED neuronVars
  /\ render

handleZoomOut ==
  /\ budget.events > 0
  /\ ~zoomOutDisabled
  /\ zoom' = zoomOutResult(zoom)
  /\ view' = Viewed("handleZoomOut", NoArg)
  /\ budget' = [budget EXCEPT !.events = @ - 1]
  /\ UNCHANGED <<panX, panY, isDragging, dragStart>>
  /\ UNCHANGED neuronVars
  /\ render

\* a reset that clears the bias as well
handleResetViewClearingBias ==
  /\ budget.events > 0
  /\ panX' = resetViewResult.panX
  /\ panY' = resetViewResult.panY
  /\ zoom' = resetViewResult.zoom
  /\ theta' = Zero
  /\ thetaInput' = <<"0">>
  /\ view' = Viewed("handleResetView", NoArg)
  /\ budget' = [budget EXCEPT !.events = @ - 1]
  /\ UNCHANGED <<isDragging, dragStart>>
  /\ UNCHANGED <<inputs, selectedAggregation, selectedFunction, linearSlope,
                 linearSlopeInput, sigmoidGain, sigmoidGainInput, last,
                 removes, edits>>
  /\ render

handleResetView ==
  /\ budget.events > 0
  /\ panX' = resetViewResult.panX
  /\ panY' = resetViewResult.panY
  /\ zoom' = resetViewResult.zoom
  /\ view' = Viewed("handleResetView", NoArg)
  /\ budget' = [budget EXCEPT !.events = @ - 1]
  /\ UNCHANGED <<isDragging, dragStart>>
  /\ UNCHANGED neuronVars
  /\ render

handleWheel ==
  \E deltaY \in WheelDeltas :
    /\ budget.events > 0
    /\ budget.wheels > 0
    /\ zoom' = wheelResult(zoom, deltaY)
    /\ view' = Viewed("handleWheel", deltaY)
    /\ budget' = [events |-> budget.events - 1, wheels |-> budget.wheels - 1]
    /\ UNCHANGED <<panX, panY, isDragging, dragStart>>
    /\ UNCHANGED neuronVars
    /\ render

handleMouseDown ==
  \E e \in ClientPoints :
    /\ budget.events > 0
    /\ isDragging' = TRUE
    /\ dragStart' = dragStartOf(closure.down.panX, closure.down.panY, e)
    /\ view' = [Viewed("handleMouseDown", e)
                  EXCEPT !.down = e, !.downPan = <<panX, panY>>]
    /\ budget' = [budget EXCEPT !.events = @ - 1]
    /\ UNCHANGED <<panX, panY, zoom>>
    /\ UNCHANGED neuronVars
    /\ render

handleMouseMove ==
  \E e \in ClientPoints :
    /\ budget.events > 0
    /\ panX' = panOf(closure.move.isDragging, closure.move.dragStart, e,
                  panX, panY)[1]
    /\ panY' = panOf(closure.move.isDragging, closure.move.dragStart, e,
                  panX, panY)[2]
    /\ view' = Viewed("handleMouseMove", e)
    /\ budget' = [budget EXCEPT !.events = @ - 1]
    /\ UNCHANGED <<zoom, isDragging, dragStart>>
    /\ UNCHANGED neuronVars
    /\ render

handleMouseUp ==
  /\ budget.events > 0
  /\ isDragging' = FALSE
  /\ view' = Viewed("handleMouseUp", NoArg)
  /\ budget' = [budget EXCEPT !.events = @ - 1]
  /\ UNCHANGED <<panX, panY, zoom, dragStart>>
  /\ UNCHANGED neuronVars
  /\ render

\* a pointer-leave that does not end the drag
handleMouseLeaveKeepingDrag ==
  /\ budget.events > 0
  /\ view' = Viewed("handleMouseLeave", NoArg)
  /\ budget' = [budget EXCEPT !.events = @ - 1]
  /\ UNCHANGED <<panX, panY, zoom, isDragging, dragStart>>
  /\ UNCHANGED neuronVars
  /\ render

handleMouseLeave ==
  /\ budget.events > 0
  /\ isDragging' = FALSE
  /\ view' = Viewed("handleMouseLeave", NoArg)
  /\ budget' = [budget EXCEPT !.events = @ - 1]
  /\ UNCHANGED <<panX, panY, zoom, dragStart>>
  /\ UNCHANGED neuronVars
  /\ render

(***************************************************************************)
(* The evaluator of the pan/zoom variant: six activation functions without *)
(* parameters, applied to the weighted sum plus bias.  Its addInput,       *)
(* removeInput and updateInput are those above, and its handleBiasChange   *)
(* is handleThetaChange under another name (the bias is theta here).       *)
(***************************************************************************)
PanZoomActivationNames ==
  {"Sigmoid", "Tanh", "ReLU", "Leaky ReLU", "Linear", "Step"}

activationFnPanZoom(name, x) ==
  CASE name = "Sigmoid" -> recipOnePlusExp(NumNeg(x))
    [] name = "Tanh" -> mathTanh(x)
    [] name = "ReLU" -> MathMax(Zero, x)
    [] name = "Leaky ReLU" ->
         IF NumLess(Zero, x) THEN x ELSE NumMul(Rat(1, 100), x)
    [] name = "Linear" -> x
    [] name = "Step" -> stepFn(x)

\* the weighted sum without the bias
weightedSumWithoutBias(ins, bias) == sumFn(ins)

weightedSumOf(ins, bias) == NumAdd(sumFn(ins), bias)

weightedSum == weightedSumOf(inputs, theta)

outputPanZoom == activationFnPanZoom(selectedFunction, weightedSum)

handleBiasChange ==
  \E raw \in RawStrings :
    /\ edits < MaxEdits
    /\ edits' = edits + 1
    /\ thetaInput' = raw
    /\ theta' = parseOrZero(raw)
    /\ last' = Last("handleBiasChange", NoArg, "", raw)
    /\ UNCHANGED viewVars
    /\ UNCHANGED <<inputs, selectedAggregation, selectedFunction,
                   linearSlope, linearSlopeInput, sigmoidGain, sigmoidGainInput,
                   removes>>
    /\ render

setSelectedFunctionPanZoom ==
  \E func \in PanZoomActivationNames :
    /\ selectedFunction' = func
    /\ UNCHANGED viewVars
    /\ UNCHANGED <<inputs, selectedAggregation, theta, thetaInput, linearSlope,
                   linearSlopeInput, sigmoidGain, sigmoidGainInput, last,
                   removes, edits>>
    /\ render

(***************************************************************************)
(* The graph of ArtificialNeuron.tsx: a fixed window on world x in [-5, 5] *)
(* and y in [-1.5, 1.5], and a curve sampled at numPoints + 1 abscissae.   *)
(***************************************************************************)
width == 1200
height == 500
padding == 0
graphWidth == width - padding * 2
graphHeight == height - padding * 2

\* a map that does not turn the y axis over
worldToScreenUpright(x, y) ==
  [x |-> NumAdd(Int2Num(padding),
                NumMul(NumDiv(NumAdd(x, Int2Num(5)), Int2Num(10)),
                       Int2Num(graphWidth))),
   y |-> NumAdd(Int2Num(padding),
                NumMul(NumDiv(NumAdd(y, Rat(3, 2)), Int2Num(3)),
                       Int2Num(graphHeight)))]

worldToScreen(x, y) ==
  [x |-> NumAdd(Int2Num(padding),
                NumMul(NumDiv(NumAdd(x, Int2Num(5)), Int2Num(10)),
                       Int2Num(graphWidth))),
   y |-> NumAdd(Int2Num(height - padding),
                NumNeg(NumMul(NumDiv(NumAdd(y, Rat(3, 2)), Int2Num(3)),
                              Int2Num(graphHeight))))]

numPoints == 1000

\* a sampling loop that stops before i = numPoints
graphDataLengthExclusive == numPoints

\* graphData: the loop runs for i = 0 .. numPoints
graphDataLength == numPoints + 1

\* graphData: the abscissa of sample i and the screen x pushed for it
graphDataWorldX(i) ==
  LET step == NumDiv(Int2Num(10), Int2Num(numPoints))
  IN NumAdd(Int2Num(-5), NumMul(Int2Num(i), step))

graphDataX(i) == worldToScreen(graphDataWorldX(i), Zero).x

\* the sampler with the gain left out of the Sigmoid and Tanh branches
graphDataWorldYIgnoringGain(name, x, slope, gain) ==
  IF name = "Linear"
    THEN LET linearY == IF slope # Zero THEN NumDiv(x, slope) ELSE x
         IN MathMax(MinusOne, MathMin(One, linearY))
  ELSE IF name = "Sigmoid" THEN recipOnePlusExp(NumNeg(x))
  ELSE IF name = "Tanh" THEN mathTanh(x)
  ELSE activationFn(name, x)

\* graphData: the y computed for the abscissa x, before the clamp to the
\* visible range
graphDataWorldY(name, x, slope, gain) ==
  IF name = "Linear"
    THEN LET linearY == IF slope # Zero THEN NumDiv(x, slope) ELSE x
         IN MathMax(MinusOne, MathMin(One, linearY))
  ELSE IF name = "Sigmoid" THEN recipOnePlusExp(NumMul(NumNeg(gain), x))
  ELSE IF name = "Tanh" THEN mathTanh(NumMul(gain, x))
  ELSE activationFn(name, x)

(***************************************************************************)
(* The graph of the pan/zoom variant: the curve is sampled every 0.05 on a *)
(* domain that grows with |panX| and is drawn at 200 + 10 x inside a group *)
(* translated by the pan and scaled by the zoom, in a viewBox 400 wide.    *)
(***************************************************************************)
viewBoxWidth == 400

\* graphData: startX, endX and step of the sampling loop
graphDomainPanZoom ==
  LET panXRange == NumDiv(Int2Num(Abs(panX)), Int2Num(10))
      range == MathMax(Int2Num(30), NumAdd(Int2Num(30), panXRange))
  IN [startX |-> NumAdd(NumNeg(range), Int2Num(-20)),
      endX |-> NumAdd(range, Int2Num(20)),
      step |-> Rat(1, 20)]

\* graphData: the number of x = startX, startX + step, ... with x <= endX
graphDataPanZoomLength ==
  LET d == graphDomainPanZoom
      steps == NumDiv(NumAdd(d.endX, NumNeg(d.startX)), d.step)
  IN (steps.n \div steps.d) + 1

\* graphData: the abscissa of sample k (k = 0 for startX) of the loop over
\* the domain d
graphDataPanZoomX(d, k) == NumAdd(d.startX, NumMul(Int2Num(k), d.step))

\* the viewBox x at which the curve point of abscissa x is drawn
curveScreenX(x) ==
  NumAdd(Int2Num(panX),
         NumMul(zoom, NumAdd(Int2Num(200), NumMul(x, Int2Num(10)))))

(***************************************************************************)
(* Spec: the Input collection under addInput and removeInput, from the     *)
(* initial state.                                                          *)
(***************************************************************************)
Next == addInput \/ removeInput

Spec == Init /\ [][Next]_vars

(***************************************************************************)
(* SpecEdit: the text fields of the inputs and of theta.  It starts from   *)
(* the collections reached by at most one removeInput and one addInput.    *)
(***************************************************************************)
EditCollections ==
  LET removed == removeInputResult(InitialInputs, toString(1))
  IN {InitialInputs, removed, addInputResult(removed)}

InitEdit ==
  /\ inputs \in EditCollections
  /\ selectedAggregation = "Sum"
  /\ selectedFunction = "Sigmoid"
  /\ theta = Zero
  /\ thetaInput = <<"0">>
  /\ linearSlope = One
  /\ linearSlopeInput = <<"1">>
  /\ sigmoidGain = One
  /\ sigmoidGainInput = <<"1">>
  /\ last = [op |-> "init", id |-> NoArg, field |-> "", raw |-> NoArg, len |-> 0]
  /\ removes = 0
  /\ edits = 0
  /\ InitialView(0, 0)

NextEdit == updateInput \/ handleThetaChange

SpecEdit == InitEdit /\ [][NextEdit]_vars

(***************************************************************************)
(* SpecSlope: the slope field of the Linear activation and the two         *)
(* selectors, from the initial state.                                      *)
(***************************************************************************)
NextSlope ==
  handleLinearSlopeChange \/ setSelectedFunction \/ setSelectedAggregation

SpecSlope == Init /\ [][NextSlope]_vars

(***************************************************************************)
(* SpecGain: the gain field of the Sigmoid and Tanh activations and the    *)
(* two selectors, from the initial state.                                  *)
(***************************************************************************)
NextGain ==
  handleSigmoidGainChange \/ setSelectedFunction \/ setSelectedAggregation

SpecGain == Init /\ [][NextGain]_vars

(***************************************************************************)
(* SpecZoom: the zoom controls of the pan/zoom variant (the two buttons,   *)
(* the wheel and the reset) from the initial state.                        *)
(***************************************************************************)
InitZoom ==
  /\ inputs = InitialInputs
  /\ selectedAggregation = "Sum"
  /\ selectedFunction = "Sigmoid"
  /\ theta = Zero
  /\ thetaInput = <<"0">>
  /\ linearSlope = One
  /\ linearSlopeInput = <<"1">>
  /\ sigmoidGain = One
  /\ sigmoidGainInput = <<"1">>
  /\ last = [op |-> "init", id |-> NoArg, field |-> "", raw |-> NoArg, len |-> 0]
  /\ removes = 0
  /\ edits = 0
  /\ InitialView(MaxZoomEvents, MaxWheels)

NextZoom == handleZoomIn \/ handleZoomOut \/ handleWheel \/ handleResetView

SpecZoom == InitZoom /\ [][NextZoom]_vars

(***************************************************************************)
(* SpecPan: every viewport handler of the pan/zoom variant, from the       *)
(* initial state.                                                          *)
(***************************************************************************)
InitPan ==
  /\ inputs = InitialInputs
  /\ selectedAggregation = "Sum"
  /\ selectedFunction = "Sigmoid"
  /\ theta = Zero
  /\ thetaInput = <<"0">>
  /\ linearSlope = One
  /\ linearSlopeInput = <<"1">>
  /\ sigmoidGain = One
  /\ sigmoidGainInput = <<"1">>
  /\ last = [op |-> "init", id |-> NoArg, field |-> "", raw |-> NoArg, len |-> 0]
  /\ removes = 0
  /\ edits = 0
  /\ InitialView(MaxPanEvents, MaxWheels)

NextPan ==
  \/ handleMouseDown
  \/ handleMouseMove
  \/ handleMouseUp
  \/ handleMouseLeave
  \/ handleWheel
  \/ handleZoomIn
  \/ handleZoomOut
  \/ handleResetView

SpecPan == InitPan /\ [][NextPan]_vars

(***************************************************************************)
(* SpecEval: the evaluator (aggregatedValue, output) on collections of up  *)
(* to MaxEvalLen inputs whose fields, bias, slope and gain were typed in,  *)
(* under every choice of the two selectors.                                *)
(***************************************************************************)
EvalValues == {Int2Num(-40), Int2Num(2), Int2Num(3)}
EvalWeights == {One, Int2Num(2), Int2Num(3)}
EvalThetaRaws == {<<"-", "2">>, <<"0">>, <<"1">>}
EvalSlopeRaws == {<<"1">>, <<"1", "0">>}
EvalGainRaws == {<<>>, <<"1">>, <<"1", "0">>}

EvalCollections ==
  UNION {[1..l -> [id : {NoArg}, value : EvalValues, weight : EvalWeights]]
           : l \in 1..MaxEvalLen}

\* the identifiers addInput gives to a collection grown from one input
WithIds(ins) == [i \in 1..Len(ins) |-> [ins[i] EXCEPT !.id = toString(i)]]

InitEval ==
  /\ \E ins \in EvalCollections : inputs = WithIds(ins)
  /\ selectedAggregation = "Sum"
  /\ selectedFunction = "Sigmoid"
  /\ \E raw \in EvalThetaRaws : thetaInput = raw /\ theta = parseOrZero(raw)
  /\ \E raw \in EvalSlopeRaws :
       linearSlopeInput = raw /\ linearSlope = linearSlopeOf(raw)
  /\ \E raw \in EvalGainRaws :
       sigmoidGainInput = raw /\ sigmoidGain = sigmoidGainOf(raw)
  /\ last = [op |-> "init", id |-> NoArg, field |-> "", raw |-> NoArg, len |-> 0]
  /\ removes = 0
  /\ edits = 0
  /\ InitialView(0, 0)

NextEval == setSelectedAggregation \/ setSelectedFunction

SpecEval == InitEval /\ [][NextEval]_vars

(***************************************************************************)
(* SpecFrame: the viewport handlers next to the handlers of the inputs,    *)
(* the bias and the activation selection, in the pan/zoom variant.  A run  *)
(* starts either with a bias typed in and viewport events to come, or in   *)
(* the viewport left by a pointer-down at (0, 0), a pointer-move to (3, 4) *)
(* and a zoom-in, with one removeInput or one field edit to come.          *)
(***************************************************************************)
InitFrame ==
  /\ inputs = InitialInputs
  /\ selectedAggregation = "Sum"
  /\ selectedFunction = "Sigmoid"
  /\ linearSlope = One
  /\ linearSlopeInput = <<"1">>
  /\ sigmoidGain = One
  /\ sigmoidGainInput = <<"1">>
  /\ last = [op |-> "init", id |-> NoArg, field |-> "", raw |-> NoArg, len |-> 0]
  /\ \/ /\ \E raw \in EvalThetaRaws :
             thetaInput = raw /\ theta = parseOrZero(raw)
        /\ removes = MaxRemoves
        /\ edits = MaxEdits
        /\ InitialView(MaxFrameEvents, MaxFrameEvents)
     \/ /\ thetaInput = <<"0">>
        /\ theta = Zero
        /\ \E left \in {<<1, 0>>, <<0, 1>>} :
             removes = MaxRemoves - left[1] /\ edits = MaxEdits - left[2]
        /\ panX = 3
        /\ panY = 4
        /\ zoom = zoomInResult(One)
        /\ isDragging = TRUE
        /\ dragStart = dragStartOf(0, 0, <<0, 0>>)
        /\ view = [op |-> "handleZoomIn", arg |-> NoArg, dragging |-> TRUE,
                   zoom |-> One, pan |-> <<3, 4>>, down |-> <<0, 0>>,
                   downPan |-> <<0, 0>>, seq |-> 1,
                   sinceReset |-> FALSE]
        /\ budget = [events |-> 0, wheels |-> 0]
        /\ closure = Captured

NextFrame ==
  \/ handleMouseDown
  \/ handleMouseMove
  \/ handleMouseUp
  \/ handleMouseLeave
  \/ handleWheel
  \/ handleZoomIn
  \/ handleZoomOut
  \/ handleResetView
  \/ addInput
  \/ removeInput
  \/ updateInput
  \/ handleBiasChange
  \/ setSelectedFunctionPanZoom

SpecFrame == InitFrame /\ [][NextFrame]_vars

(***************************************************************************)
(* SpecClosure: the handlers that read state captured at a render (the     *)
(* three collection handlers, handleMouseDown, handleMouseMove) next to    *)
(* the handlers that change what they captured.  A run has either the      *)
(* viewport events and addInput, or one removeInput, or one updateInput.   *)
(***************************************************************************)
InitClosure ==
  /\ inputs = InitialInputs
  /\ selectedAggregation = "Sum"
  /\ selectedFunction = "Sigmoid"
  /\ theta = Zero
  /\ thetaInput = <<"0">>
  /\ linearSlope = One
  /\ linearSlopeInput = <<"1">>
  /\ sigmoidGain = One
  /\ sigmoidGainInput = <<"1">>
  /\ last = [op |-> "init", id |-> NoArg, field |-> "", raw |-> NoArg, len |-> 0]
  /\ \E left \in {<<0, 0, MaxPanEvents>>, <<1, 0, 0>>, <<0, 1, 0>>} :
       /\ removes = MaxRemoves - left[1]
       /\ edits = MaxEdits - left[2]
       /\ InitialView(left[3], MaxWheels)

NextClosure ==
  \/ addInput
  \/ removeInput
  \/ updateInput
  \/ handleMouseDown
  \/ handleMouseMove
  \/ handleMouseUp
  \/ handleMouseLeave
  \/ handleWheel
  \/ handleZoomIn
  \/ handleZoomOut
  \/ handleResetView

SpecClosure == InitClosure /\ [][NextClosure]_vars

(***************************************************************************)
(* SpecWindow: the operating point (aggregatedValue, output) that the      *)
(* component maps through worldToScreen, for one input whose fields, the   *)
(* bias and the slope were typed in, under every choice of the selectors.  *)
(***************************************************************************)
InitWindow ==
  /\ \E value \in EvalValues, weight \in EvalWeights :
       inputs = <<Input(toString(1), value, weight)>>
  /\ selectedAggregation = "Sum"
  /\ selectedFunction = "Sigmoid"
  /\ \E raw \in EvalThetaRaws : thetaInput = raw /\ theta = parseOrZero(raw)
  /\ \E raw \in EvalSlopeRaws :
       linearSlopeInput = raw /\ linearSlope = linearSlopeOf(raw)
  /\ sigmoidGain = One
  /\ sigmoidGainInput = <<"1">>
  /\ last = [op |-> "init", id |-> NoArg, field |-> "", raw |-> NoArg, len |-> 0]
  /\ removes = 0
  /\ edits = 0
  /\ InitialView(0, 0)

SpecWindow == InitWindow /\ [][NextEval]_vars

(***************************************************************************)
(* SpecGraph: the curve sampler under the viewport handlers, a few events  *)
(* deep, from the initial state.                                           *)
(***************************************************************************)
InitGraph ==
  /\ inputs = InitialInputs
  /\ selectedAggregation = "Sum"
  /\ selectedFunction = "Sigmoid"
  /\ theta = Zero
  /\ thetaInput = <<"0">>
  /\ linearSlope = One
  /\ linearSlopeInput = <<"1">>
  /\ sigmoidGain = One
  /\ sigmoidGainInput = <<"1">>
  /\ last = [op |-> "init", id |-> NoArg, field |-> "", raw |-> NoArg, len |-> 0]
  /\ removes = 0
  /\ edits = 0
  /\ InitialView(MaxGraphEvents, MaxWheels)

SpecGraph == InitGraph /\ [][NextPan]_vars

(***************************************************************************)
(* Properties of the Input collection (Spec).                              *)
(***************************************************************************)

\* C1: after any sequence of addInput and removeInput calls from the two
\* initial inputs the Input collection is never empty, so Maximum and
\* Minimum are never evaluated on an empty collection.
C1_InputsNeverEmpty == Len(inputs) >= 1

\* C2: in every reachable state the identifiers of the inputs of the
\* collection are pairwise distinct.
C2_IdsPairwiseDistinct ==
  \A i, j \in 1..Len(inputs) : i # j => inputs[i].id # inputs[j].id

\* C3: the collection never holds more than 10 inputs, and an addInput call
\* made on a collection of 10 inputs leaves the collection unchanged.
C3_AddInputKeepsMaximum ==
  /\ Len(inputs) <= MaxInputs
  /\ Len(inputs) = MaxInputs => addInputResult(inputs) = inputs

\* C4: a removeInput call made on a collection of exactly one input is a
\* no-op: the collection keeps its one input, and the bias, the selected
\* functions and the parameters are unchanged.
C4_RemoveLastInputIsNoOp ==
  [][(removes' # removes /\ Len(inputs) = 1) =>
       /\ inputs' = inputs
       /\ Len(inputs') = 1
       /\ theta' = theta
       /\ selectedAggregation' = selectedAggregation
       /\ selectedFunction' = selectedFunction
       /\ linearSlope' = linearSlope
       /\ sigmoidGain' = sigmoidGain]_vars

\* a removeInput call has just run on a collection of one input
C4_Witness ==
  last.op = "removeInput" /\ last.len = 1 /\ Len(inputs) = 1

(***************************************************************************)
(* Properties of the evaluator (SpecEval).                                 *)
(***************************************************************************)
\* the per-input products value * weight of the collection
Products == [i \in 1..Len(inputs) |-> NumMul(inputs[i].value, inputs[i].weight)]

\* sum and product of a sequence of numbers, folded from the right
RECURSIVE SeqSum(_)
SeqSum(q) == IF q = <<>> THEN Zero ELSE NumAdd(Head(q), SeqSum(Tail(q)))
RECURSIVE SeqProduct(_)
SeqProduct(q) == IF q = <<>> THEN One ELSE NumMul(Head(q), SeqProduct(Tail(q)))

\* C5: on a non-empty collection the aggregated value is the selected
\* aggregation of the products value * weight plus the bias: the sum of the
\* products plus theta, their product plus theta, their greatest plus theta,
\* their least plus theta; theta is never a factor or an operand of max/min.
C5_AggregationPlusBias ==
  Len(inputs) >= 1 =>
    CASE selectedAggregation = "Sum" ->
           aggregatedValue = NumAdd(SeqSum(Products), theta)
      [] selectedAggregation = "Product" ->
           aggregatedValue = NumAdd(SeqProduct(Products), theta)
      [] selectedAggregation = "Maximum" ->
           \E i \in 1..Len(inputs) :
             /\ \A j \in 1..Len(inputs) : NumLeq(Products[j], Products[i])
             /\ aggregatedValue = NumAdd(Products[i], theta)
      [] selectedAggregation = "Minimum" ->
           \E i \in 1..Len(inputs) :
             /\ \A j \in 1..Len(inputs) : NumLeq(Products[i], Products[j])
             /\ aggregatedValue = NumAdd(Products[i], theta)

\* inputs (2, 2) and (3, 3) under Product with bias 1 aggregate to 37
C5_Witness ==
  /\ selectedAggregation = "Product"
  /\ Len(inputs) = 2
  /\ Products = <<Int2Num(4), Int2Num(9)>>
  /\ theta = One
  /\ aggregatedValue = Int2Num(37)

\* C6: with Linear selected the output is aggregated / slope clamped to
\* [-1, 1]: it lies in [-1, 1], is 1 when the quotient is at least 1, -1 when
\* the quotient is at most -1, and the quotient itself in between.
C6_LinearDividedAndClamped ==
  selectedFunction = "Linear" =>
    LET q == NumDiv(aggregatedValue, linearSlope)
    IN /\ NumLeq(MinusOne, output) /\ NumLeq(output, One)
       /\ NumLeq(One, q) => output = One
       /\ NumLeq(q, MinusOne) => output = MinusOne
       /\ (NumLess(MinusOne, q) /\ NumLess(q, One)) => output = q

\* aggregated value 37 with slope 10 under Linear: 3.7 is clamped to 1
C6_Witness ==
  /\ selectedFunction = "Linear"
  /\ aggregatedValue = Int2Num(37)
  /\ linearSlope = Int2Num(10)
  /\ output = One

\* C7: Step outputs 1 when the aggregated value is at least 0 and 0
\* otherwise (so Step(0) = 1); Sign outputs only -1 or 1.
C7_StepAndSignRange ==
  /\ selectedFunction = "Step" =>
       output = (IF aggregatedValue.n >= 0 THEN One ELSE Zero)
  /\ selectedFunction = "Sign" => output \in {MinusOne, One}

\* Step on an aggregated value of exactly 0 outputs 1
C7_Witness ==
  selectedFunction = "Step" /\ aggregatedValue = Zero /\ output = One

\* y lies strictly between lo and hi; the symbolic values are the doubles
\* strictly inside the range of their function
StrictlyBetween(y, lo, hi) ==
  \/ IsRat(y) /\ NumLess(lo, y) /\ NumLess(y, hi)
  \/ y.k = "sigmoid" /\ lo = Zero /\ hi = One
  \/ y.k = "tanh" /\ lo = MinusOne /\ hi = One

\* gain * aggregated, the argument the gain-parameterized functions see
ScaledAggregate == NumMul(sigmoidGain, aggregatedValue)

\* C8 as claimed: the Sigmoid output lies strictly between 0 and 1 and the
\* Tanh output strictly between -1 and 1; the bounds are never produced.
C8_OpenRanges ==
  /\ selectedFunction = "Sigmoid" => StrictlyBetween(output, Zero, One)
  /\ selectedFunction = "Tanh" => StrictlyBetween(output, MinusOne, One)

\* C8 amended: the Sigmoid output lies in [0, 1] and the Tanh output in
\* [-1, 1]; the bounds are produced where double arithmetic saturates
\* (Sigmoid is 1 from gain * aggregated = 37 on and 0 from -710 down, Tanh is
\* 1 from 20 on and -1 from -20 down) and the output is strictly inside the
\* range while gain * aggregated stays within [-709, 36] (Tanh: [-19, 19]).
C8_ClosedRanges ==
  LET z == ScaledAggregate
  IN /\ selectedFunction = "Sigmoid" =>
          /\ output = Zero \/ output = One \/ StrictlyBetween(output, Zero, One)
          /\ NumLeq(Int2Num(37), z) => output = One
          /\ NumLeq(z, Int2Num(-710)) => output = Zero
          /\ (NumLeq(Int2Num(-709), z) /\ NumLeq(z, Int2Num(36))) =>
               StrictlyBetween(output, Zero, One)
     /\ selectedFunction = "Tanh" =>
          /\ output = MinusOne \/ output = One
               \/ StrictlyBetween(output, MinusOne, One)
          /\ NumLeq(Int2Num(20), z) => output = One
          /\ NumLeq(z, Int2Num(-20)) => output = MinusOne
          /\ (NumLeq(Int2Num(-19), z) /\ NumLeq(z, Int2Num(19))) =>
               StrictlyBetween(output, MinusOne, One)

\* Sigmoid with gain 10 on an aggregated value of 4 outputs exactly 1
C8_Witness ==
  /\ selectedFunction = "Sigmoid"
  /\ sigmoidGain = Int2Num(10)
  /\ aggregatedValue = Int2Num(4)
  /\ output = One

(***************************************************************************)
(* Properties of the text fields (SpecEdit, SpecSlope).                    *)
(***************************************************************************)
\* the number a raw string stands for: 0 when it is empty or parseFloat
\* finds no number in it, the parsed number otherwise
ForgivingValue(raw) ==
  IF raw = <<>> \/ IsNaN(ParseFloat(raw)) THEN Zero ELSE ParseFloat(raw)

\* the field of an input that an updateInput call names
FieldOf(input, field) == IF field = "value" THEN input.value ELSE input.weight

\* C9: updateInput and the bias setter never fail: every stored value is a
\* number, an empty or unparsable raw string stores 0 and a raw string that
\* parses to a number stores that number.
C9_ForgivingParse ==
  /\ ~IsNaN(theta)
  /\ \A i \in 1..Len(inputs) : ~IsNaN(inputs[i].value) /\ ~IsNaN(inputs[i].weight)
  /\ last.op = "handleThetaChange" =>
       theta = ForgivingValue(last.raw) /\ thetaInput = last.raw
  /\ last.op = "updateInput" =>
       \A i \in 1..Len(inputs) :
         inputs[i].id = last.id =>
           FieldOf(inputs[i], last.field) = ForgivingValue(last.raw)

\* an updateInput call has stored 0 in a weight for a non-empty raw string
\* in which parseFloat finds no number
C9_Witness ==
  /\ last.op = "updateInput"
  /\ last.field = "weight"
  /\ last.raw # <<>>
  /\ IsNaN(ParseFloat(last.raw))
  /\ \E i \in 1..Len(inputs) : inputs[i].id = last.id /\ inputs[i].weight = Zero

\* C10: in every reachable state the Linear slope is at least 1, hence not
\* 0: handleLinearSlopeChange stores 1 for a raw string that is empty,
\* unparsable or below 1, and the parsed number for one that is at least 1.
C10_SlopeAtLeastOne ==
  LET numValue == ParseFloat(linearSlopeInput)
  IN /\ NumLeq(One, linearSlope)
     /\ linearSlope # Zero
     /\ (linearSlopeInput = <<>> \/ IsNaN(numValue) \/ NumLess(numValue, One))
          => linearSlope = One
     /\ (~IsNaN(numValue) /\ NumLeq(One, numValue)) => linearSlope = numValue

\* the slope field holds a number below 1 and the slope is 1
C10_Witness ==
  /\ linearSlopeInput = <<".", "1">>
  /\ linearSlope = One
(***************************************************************************)
(* Properties of the gain field (SpecGain).                                *)
(***************************************************************************)
\* C11: in every state reached after a call of handleSigmoidGainChange,
\* whatever the raw string (the empty string included), the gain used by
\* Sigmoid and Tanh is strictly greater than 1.
C11_GainAboveOne ==
  last.op = "handleSigmoidGainChange" => NumLess(One, sigmoidGain)

(***************************************************************************)
(* Properties of the viewport of the pan/zoom variant (SpecPan, SpecZoom). *)
(***************************************************************************)
ZoomOps == {"handleWheel", "handleZoomIn", "handleZoomOut"}

\* C12: the drag flag has the two states Idle (FALSE) and Dragging (TRUE)
\* and starts Idle; a pointer-down leaves it Dragging whatever it was, a
\* pointer-up and a pointer-leave leave it Idle whatever it was, and wheel,
\* zoom-in, zoom-out, reset and pointer-move leave it as they found it.
C12_DragStateMachine ==
  /\ isDragging \in BOOLEAN
  /\ view.op = "init" => ~isDragging
  /\ view.op = "handleMouseDown" => isDragging
  /\ view.op \in {"handleMouseUp", "handleMouseLeave"} => ~isDragging
  /\ view.op \in ZoomOps \cup {"handleResetView", "handleMouseMove"}
       => isDragging = view.dragging

\* a pointer-leave that ended a drag started by a pointer-down
C12_Witness ==
  /\ view.op = "handleMouseLeave"
  /\ view.dragging
  /\ view.down # NoArg
  /\ ~isDragging

\* C13: the pan changes only in a pointer-move that finds the drag under
\* way and in a reset; a pointer-move in Idle and a pointer-down leave it
\* unchanged; and after a pointer-down at p0 that found pan P, a
\* pointer-move to p while Dragging leaves pan = P + (p - p0).
C13_PanFollowsDrag ==
  /\ <<panX, panY>> # view.pan
       => \/ view.op = "handleMouseMove" /\ view.dragging
          \/ view.op = "handleResetView"
  /\ view.op = "handleMouseMove" /\ view.dragging
       => /\ panX = view.downPan[1] + (view.arg[1] - view.down[1])
          /\ panY = view.downPan[2] + (view.arg[2] - view.down[2])

\* a pointer-move to p # p0 while Dragging, after a pointer-down that found
\* a pan other than (0, 0)
C13_Witness ==
  /\ view.op = "handleMouseMove"
  /\ view.dragging
  /\ view.downPan # <<0, 0>>
  /\ view.arg # view.down

InZoomRange(z) == NumLeq(MinZoom, z) /\ NumLeq(z, MaxZoom)

\* the bound of [0.2, 1.5] nearest to z, or z itself inside the range
NearestInRange(z) ==
  IF NumLess(z, MinZoom) THEN MinZoom
  ELSE IF NumLess(MaxZoom, z) THEN MaxZoom
  ELSE z

\* the zoom the last viewport handler asked for, before any clamping
RequestedZoom ==
  CASE view.op = "handleZoomIn" -> NumMul(view.zoom, Rat(12, 10))
    [] view.op = "handleZoomOut" -> NumDiv(view.zoom, Rat(12, 10))
    [] view.op = "handleWheel" ->
         NumMul(view.zoom, IF view.arg > 0 THEN Rat(9, 10) ELSE Rat(11, 10))
    [] OTHER -> zoom

\* C14: in every state reached by wheel, zoom-in, zoom-out and reset events
\* the zoom lies in [0.2, 1.5], and an event whose requested zoom is outside
\* the range leaves the zoom at the nearest bound.
C14_ZoomClamped ==
  /\ InZoomRange(zoom)
  /\ view.op \in ZoomOps => zoom = NearestInRange(RequestedZoom)

\* a zoom-out that asked for a zoom below 0.2
C14_Witness ==
  /\ view.op = "handleZoomOut"
  /\ NumLess(RequestedZoom, MinZoom)
  /\ zoom = MinZoom

\* C15: a reset leaves pan = (0, 0) and zoom = 1 whatever the viewport was,
\* and a reset that follows a reset changes nothing of the viewport.
C15_ResetView ==
  [][(view'.op = "handleResetView" /\ view'.seq # view.seq)
       => /\ panX' = 0 /\ panY' = 0 /\ zoom' = One
          /\ view.op = "handleResetView"
               => <<panX', panY', zoom', isDragging', dragStart'>>
                    = <<panX, panY, zoom, isDragging, dragStart>>]_vars

\* a reset that found the graph panned and zoomed
C15_Witness ==
  /\ view.op = "handleResetView"
  /\ view.pan[1] # 0
  /\ view.pan[2] # 0
  /\ view.zoom # One
  /\ <<panX, panY>> = <<0, 0>>
  /\ zoom = One

(***************************************************************************)
(* Independence of the viewport and the neuron (SpecFrame).                *)
(***************************************************************************)
\* C16: a viewport handler (wheel, zoom buttons, reset, pointer-down, -move,
\* -up, -leave) leaves inputs, bias, selected activation function, weighted
\* sum and output as they were; addInput, removeInput, updateInput, the bias
\* setter and the activation selection leave pan, zoom and the drag state
\* as they were.
C16_ViewportAndNeuronIndependent ==
  [][/\ view'.seq # view.seq
          => /\ <<inputs', theta', thetaInput', selectedFunction'>>
                  = <<inputs, theta, thetaInput, selectedFunction>>
             /\ weightedSumOf(inputs', theta') = weightedSum
             /\ activationFnPanZoom(selectedFunction',
                                    weightedSumOf(inputs', theta'))
                  = outputPanZoom
     /\ view'.seq = view.seq
          => <<panX', panY', zoom', isDragging', dragStart'>>
               = <<panX, panY, zoom, isDragging, dragStart>>]_vars

\* a pointer-down ran on a neuron with a bias, and addInput ran on the
\* viewport it left
C16_Witness ==
  /\ view.op = "handleMouseDown"
  /\ isDragging
  /\ theta # Zero
  /\ last.op = "addInput"
  /\ Len(inputs) = 3

C18_CurveCoversViewport ==
  /\ NumLeq(curveScreenX(graphDomainPanZoom.startX), Zero)
  /\ NumLeq(Int2Num(viewBoxWidth), curveScreenX(graphDomainPanZoom.endX))

\* the screen abscissae of graphData are in strictly increasing order
GraphDataIncreasing ==
  \A i \in 0..(graphDataLength - 2) :
    NumLess(graphDataX(i), graphDataX(i + 1))

\* the abscissae of the pan/zoom graphData are in strictly increasing order
GraphDataPanZoomIncreasing ==
  LET d == graphDomainPanZoom
  IN \A k \in 0..(graphDataPanZoomLength - 2) :
       NumLess(graphDataPanZoomX(d, k), graphDataPanZoomX(d, k + 1))

screenToWorld(sx, sy) ==
  [x |-> NumAdd(NumMul(NumDiv(sx, Int2Num(1200)), Int2Num(10)), Int2Num(-5)),
   y |-> NumAdd(NumMul(NumDiv(NumAdd(Int2Num(500), NumNeg(sy)), Int2Num(500)),
                       Int2Num(3)),
                Rat(-3, 2))]

\* C20: worldToScreen is an invertible affine map: x in [-5, 5] goes
\* linearly onto screen x in [0, 1200], y in [-1.5, 1.5] onto screen y in
\* [500, 0] (turned over), and the inverse affine map takes
\* worldToScreen(x, y) back to (x, y); checked at the corners of the window
\* and at the operating point (aggregatedValue, output) where it is rational.
C20_WorldToScreenAffine ==
  /\ worldToScreen(Int2Num(-5), Rat(-3, 2)) = [x |-> Zero, y |-> Int2Num(500)]
  /\ worldToScreen(Int2Num(5), Rat(3, 2)) = [x |-> Int2Num(1200), y |-> Zero]
  /\ IsRat(aggregatedValue) /\ IsRat(output)
       => LET point == worldToScreen(aggregatedValue, output)
          IN /\ point.x = NumAdd(Int2Num(600),
                                 NumMul(Int2Num(120), aggregatedValue))
             /\ point.y = NumAdd(Int2Num(250),
                                 NumNeg(NumMul(Rat(500, 3), output)))
             /\ screenToWorld(point.x, point.y)
                  = [x |-> aggregatedValue, y |-> output]

\* an operating point off both axes and strictly inside the y range
C20_Witness ==
  /\ selectedFunction = "Linear"
  /\ IsRat(aggregatedValue)
  /\ aggregatedValue # Zero
  /\ output \notin {Zero, One, MinusOne}

(***************************************************************************)
(* Frame of updateInput (SpecEdit) and of removeInput (Spec).              *)
(***************************************************************************)
\* the positions at which two collections of the same length differ
ChangedRows(before, after) ==
  {i \in 1..Len(before) : after[i] # before[i]}

\* C21: updateInput(id, field, raw) changes exactly one thing, the named
\* field of the single input whose identifier is id: at most one input
\* differs afterwards, it is one with that identifier and its other field
\* is as before; the order, the number of inputs and every identifier are
\* unchanged.
C21_UpdateInputChangesOneField ==
  [][(edits' # edits /\ last'.op = "updateInput")
       => /\ Len(inputs') = Len(inputs)
          /\ \A i \in 1..Len(inputs) : inputs'[i].id = inputs[i].id
          /\ Cardinality(ChangedRows(inputs, inputs')) <= 1
          /\ \A i \in ChangedRows(inputs, inputs') :
               /\ inputs[i].id = last'.id
               /\ last'.field = "value" => inputs'[i].weight = inputs[i].weight
               /\ last'.field = "weight" => inputs'[i].value = inputs[i].value]_vars

\* C23: on a collection of more than one input, removeInput(id) for an id
\* present in the collection removes exactly one input: the collection is
\* one shorter and is the old one without one input carrying that id, the
\* others kept in their order.
C23_RemoveInputRemovesOne ==
  [][(removes' # removes /\ Len(inputs) > 1)
       => /\ Len(inputs') = Len(inputs) - 1
          /\ \E i \in 1..Len(inputs) :
               /\ inputs[i].id = last'.id
               /\ inputs' = [j \in 1..(Len(inputs) - 1) |->
                               IF j < i THEN inputs[j] ELSE inputs[j + 1]]]_vars

(***************************************************************************)
(* Parameters of the activation functions (SpecGain).                      *)
(***************************************************************************)
StoredParameters ==
  <<sigmoidGain, sigmoidGainInput, linearSlope, linearSlopeInput, inputs,
    theta, thetaInput>>

\* C22: parameter values are held per activation function: a step that
\* keeps Sigmoid selected leaves the gain applied under Tanh as it was, a
\* step that keeps Tanh selected leaves the gain applied under Sigmoid as
\* it was, and selecting another activation function leaves gain, slope,
\* inputs and bias unchanged.
C22_ParametersPerActivation ==
  [][/\ selectedFunction = "Sigmoid" /\ selectedFunction' = "Sigmoid"
          => gainOf("Tanh", sigmoidGain') = gainOf("Tanh", sigmoidGain)
     /\ selectedFunction = "Tanh" /\ selectedFunction' = "Tanh"
          => gainOf("Sigmoid", sigmoidGain') = gainOf("Sigmoid", sigmoidGain)
     /\ selectedFunction' # selectedFunction
          => StoredParameters' = StoredParameters]_vars

\* C22 as the code has it: one gain is stored for Sigmoid and Tanh
\* together: once the gain was set, under whichever function, the gain
\* applied under Sigmoid and the gain applied under Tanh are both the value
\* stored for the raw string last typed; selecting another activation
\* function leaves gain, slope, inputs and bias unchanged.
C22_GainSharedSelectionKeepsParameters ==
  [][/\ last'.op = "handleSigmoidGainChange"
          => /\ gainOf("Sigmoid", sigmoidGain') = sigmoidGainOf(last'.raw)
             /\ gainOf("Tanh", sigmoidGain') = sigmoidGainOf(last'.raw)
     /\ selectedFunction' # selectedFunction
          => /\ sigmoidGain' = sigmoidGain
             /\ sigmoidGainInput' = sigmoidGainInput
             /\ linearSlope' = linearSlope
             /\ linearSlopeInput' = linearSlopeInput
             /\ inputs' = inputs
             /\ theta' = theta
             /\ thetaInput' = thetaInput]_vars

\* a gain typed in while Sigmoid was selected, and Tanh selected afterwards
C22_Witness ==
  /\ last.op = "handleSigmoidGainChange"
  /\ last.raw = <<"1", "0">>
  /\ selectedFunction = "Tanh"
  /\ gainOf(selectedFunction, sigmoidGain) = Int2Num(10)

\* C24: after resetView the pan stays (0, 0) until the next pointer-down,
\* whatever pointer-moves occur in between, also when resetView was invoked
\* while dragging (view.sinceReset: a reset happened and no pointer-down
\* since).
C24_PanStaysResetUntilPointerDown ==
  view.sinceReset => panX = 0 /\ panY = 0

\* C25: the operating point lies on the plotted curve: for every selected
\* activation function and every slope and gain, the output computed for
\* the aggregated value equals the value the curve sampler computes at
\* x = aggregated value, before its clamp to [-1.5, 1.5].
C25_OperatingPointOnCurve ==
  output = graphDataWorldY(selectedFunction, aggregatedValue, linearSlope,
                           sigmoidGain)

\* Tanh selected with gain 10 and slope 10, on a finite aggregated value
\* other than 0
C25_Witness ==
  /\ selectedFunction = "Tanh"
  /\ sigmoidGain = Int2Num(10)
  /\ linearSlope = Int2Num(10)
  /\ aggregatedValue.k = "rat"
  /\ aggregatedValue # Zero
  /\ output = graphDataWorldY("Tanh", aggregatedValue, linearSlope, sigmoidGain)
  /\ output # mathTanh(aggregatedValue)

====
